---- MODULE Spec2Model ----
(***************************************************************************)
(* Model of the multi-hop routing engine of zmix                           *)
(* (src/client/src/lib/multihop.ts, src/client/src/lib/solana.ts) and of   *)
(* its caller, onSubmit of src/client/src/components/MixerDialog.tsx.      *)
(*                                                                         *)
(* Amounts are integers in micro-SOL (0.000001 SOL), so that every amount  *)
(* literal of the source is a whole number: 0.000005 SOL = 5,              *)
(* 0.001 SOL = 1000, 0.000001 SOL = 1.  Math.random() is a draw r from     *)
(* RandomDraws standing for the value r/100 in [0,1).  Backoff waits are   *)
(* in milliseconds, delays in seconds.  Wallet indices are those of the    *)
(* source: -1 is the source wallet, 0..N-1 the hop wallets; hopWallets[-1] *)
(* is JavaScript's undefined.                                              *)
(***************************************************************************)
EXTENDS Integers, Sequences, FiniteSets, TLC

VARIABLES
    config,              \* MultiHopConfig of the run
    finalAmount,         \* executeHopChain's finalAmount argument
    pc,                  \* position of the run
    hopWallets,          \* createHopChain's result: sequence of HopWallet
    \* locals of generateHopItinerary
    operations, forwardIndex, consecutiveBounces, hopsSinceStart,
    historyWindow, currentWalletIndex,
    replica,             \* the same locals in a second execution of the planner
    \* locals of executeHopChain
    i, fromBalance, transferAmount, finalHopWallet, totalBudgetInjected,
    isFirstForward, secondsLeft,
    roundOff,            \* rounding error of transferAmount * LAMPORTS_PER_SOL
    \* locals of retryWithBackoff and confirmHopBalance
    attempt, totalDelay, polls,
    \* environment
    ledger,              \* the chain: wallet index -> balance
    aborted,             \* what abortSignal() returns
    recovery,            \* sessionStorage[RECOVERY_KEY]: <<>> or <<the item>>
    error,               \* the error the run threw, "" if none
    \* observation of the run's calls
    inFlight,            \* operations whose sendSOL call has not returned
    sendCalls,           \* sendSOL calls issued for the current operation
    waitCount,           \* backoff waits made for the current operation
    settled,             \* operations skipped, or sent and confirmed
    transfers,           \* the transfers the chain executed, in order
    progress,            \* last HopProgress status passed to onProgress
    \* the wallet objects and the caller (MixerDialog's onSubmit)
    secretKeys,          \* hopNumber -> secretKey field of the wallet object
    now,                 \* Date.now(), in ms
    caller,              \* position of onSubmit around executeHopChain
    serverCheckpoint,    \* body of the checkpoint posted to the server
    lastRead,            \* getHopState's last result: <<>> or <<the state>>
    sessionCalls,        \* completeSession / failSession calls of onSubmit
    \* what the engine's run shares its page with
    otherRun,            \* a second executeHopChain run of the same page
    accounting,          \* the AccountingState of the run, <<>> if none
    eta                  \* the ETA shown: <<>> or <<estimate and updates>>

planVars == <<operations, forwardIndex, consecutiveBounces, hopsSinceStart,
              historyWindow, currentWalletIndex, replica>>
callerVars == <<caller, serverCheckpoint, lastRead, sessionCalls>>
sideVars == <<otherRun, accounting, eta>>
execVars == <<i, fromBalance, transferAmount, finalHopWallet,
              totalBudgetInjected, isFirstForward, secondsLeft, attempt,
              totalDelay, polls, ledger, recovery, error, inFlight,
              sendCalls, waitCount, settled, transfers, progress, roundOff,
              secretKeys, now, callerVars>>
vars == <<config, finalAmount, pc, hopWallets, planVars, execVars, aborted,
          sideVars>>

\* ------------------------------------------------------------------ bounds

MaxHops == 4
MaxRunHops == 3
MaxDepth == 2
MaxSeqBounce == 2
MaxMinForward == 3
MaxDelay == 1
MaxLateness == 1
MaxVariance == 10
MaxEtaHops == 4
MaxEtaDelay == 30
MaxInitialMinutes == 2

\* Values of Math.random() * 100 the model draws.
RandomDraws == {0, 50, 99}
\* Draws for the per-operation delay and amount factor.
ShapeDraws == {0, 99}

\* --------------------------------------------------------- program constants

\* TX_FEE = 0.000005 SOL
TX_FEE == 5
\* sourceBuffer = 0.001 SOL of the first forward hop out of the source
SOURCE_BUFFER == 1000
\* transferAmount < 0.000001 is skipped
MIN_TRANSFER == 1
\* confirmHopBalance: tolerance = 0.001 SOL
TOLERANCE == 1000
\* retryWithBackoff(fn, 3, 1000, ...)
MAX_RETRIES == 3
BASE_DELAY_MS == 1000
\* confirmHopBalance: maxRetries = 10
CONFIRM_RETRIES == 10
\* sendSOL: estimatedFee = 5000 lamports, also what the chain charges
ESTIMATED_FEE == 5
\* calculateDelayForMode: stealth floors, in seconds
STEALTH_MIN_DELAY == 300
STEALTH_MAX_DELAY == 3600
\* executeDelay: setInterval(..., 1000)
TICK_MS == 1000
\* getHopState: a checkpoint expires after 3600000 ms
TTL_MS == 3600000

Min(a, b) == IF a < b THEN a ELSE b
Max(a, b) == IF a > b THEN a ELSE b

\* ------------------------------------------------------------ createHopChain

\* variant of NumberOfHops: the range one too wide
NumberOfHopsWide(r) ==
    IF config.enableRandomization
    THEN (r * (config.maxHops - config.minHops + 2)) \div 100 + config.minHops
    ELSE config.minHops
\* Math.floor(Math.random() * (maxHops - minHops + 1)) + minHops, or minHops
NumberOfHops(r) ==
    IF config.enableRandomization
    THEN (r * (config.maxHops - config.minHops + 1)) \div 100 + config.minHops
    ELSE config.minHops

NewHopWallet(n) == [hopNumber |-> n, secretKey |-> "secret"]

\* ------------------------------------------------------- generateHopItinerary

\* variant of CanBounceBack: one bounce-back more in a row
CanBounceBackOneMore ==
    /\ config.bounceBackProbability > 0
    /\ Len(historyWindow) > 0
    /\ hopsSinceStart >= config.minForwardBeforeBounce
    /\ consecutiveBounces <= config.maxSequentialBounce
\* variant of CanBounceBack: maxSequentialBounce not looked at
CanBounceBackUnlimited ==
    /\ config.bounceBackProbability > 0
    /\ Len(historyWindow) > 0
    /\ hopsSinceStart >= config.minForwardBeforeBounce
\* variant of CanBounceBack: minForwardBeforeBounce not looked at
CanBounceBackEarly ==
    /\ config.bounceBackProbability > 0
    /\ Len(historyWindow) > 0
    /\ consecutiveBounces < config.maxSequentialBounce
\* canBounceBack
CanBounceBack ==
    /\ config.bounceBackProbability > 0
    /\ Len(historyWindow) > 0
    /\ hopsSinceStart >= config.minForwardBeforeBounce
    /\ consecutiveBounces < config.maxSequentialBounce

\* variant of ShouldBounceBack: the probability not looked at
ShouldBounceBackAnyway(r) ==
    /\ Len(historyWindow) > 0
    /\ hopsSinceStart >= config.minForwardBeforeBounce
    /\ consecutiveBounces < config.maxSequentialBounce
\* canBounceBack && (Math.random() * 100 < config.bounceBackProbability)
ShouldBounceBack(r) == CanBounceBack /\ r < config.bounceBackProbability

\* variant of BounceTarget: the newest entry whatever the draw
BounceTargetNewest(r) == historyWindow[Len(historyWindow)]
\* historyWindow[historyWindow.length - bounceDepth], 0-based in the source
BounceTarget(r) ==
    LET maxDepth == Min(config.maxBounceBackDepth, Len(historyWindow))
        bounceDepth == (r * maxDepth) \div 100 + 1
    IN  historyWindow[Len(historyWindow) - bounceDepth + 1]

\* variant of IsSelfHop: the guard left out
IsSelfHopNever(targetIndex) == FALSE
\* the guard targetIndex === currentWalletIndex
IsSelfHop(targetIndex) == targetIndex = currentWalletIndex

\* variant of ForwardTarget: the index taken after its increment
ForwardTargetSkipsOne == forwardIndex + 1
\* targetIndex = forwardIndex
ForwardTarget == forwardIndex

\* variant of PushHistory: the shift() left out
PushHistoryUncapped ==
    IF currentWalletIndex >= 0
    THEN Append(historyWindow, currentWalletIndex)
    ELSE historyWindow
\* historyWindow after push(currentWalletIndex) and the shift() that caps it
PushHistory ==
    IF currentWalletIndex >= 0
    THEN LET pushed == Append(historyWindow, currentWalletIndex)
         IN  IF Len(pushed) > config.maxBounceBackDepth THEN Tail(pushed) ELSE pushed
    ELSE historyWindow

\* variant of CalculateDelayForMode: the stealth floor before the test of
\* enableRandomization
CalculateDelayStealthFirst(r) ==
    IF config.stealthPreset
    THEN Max(config.minDelaySeconds, STEALTH_MIN_DELAY)
    ELSE config.minDelaySeconds
\* Math.round(minDelay + Math.random() * (maxDelay - minDelay))
CalculateDelayForMode(r) ==
    IF ~config.enableRandomization
    THEN config.minDelaySeconds
    ELSE LET minDelay == IF config.stealthPreset
                         THEN Max(config.minDelaySeconds, STEALTH_MIN_DELAY)
                         ELSE config.minDelaySeconds
             maxDelay == IF config.stealthPreset
                         THEN Max(config.maxDelaySeconds, STEALTH_MAX_DELAY)
                         ELSE config.maxDelaySeconds
         IN  (100 * minDelay + r * (maxDelay - minDelay) + 50) \div 100

\* 100 + (Math.random() * 2 - 1) * amountVariancePercent, in hundredths of a percent
AmountPercent(r) ==
    IF config.enableRandomization
    THEN 10000 + (2 * r - 100) * config.amountVariancePercent
    ELSE 10000

\* variant of HopOperation: sender and receiver exchanged
HopOperationReversed(from, to, amt, bounce, delay) ==
    [fromWalletIndex |-> to, toWalletIndex |-> from, amountPercent |-> amt,
     isBounceback |-> bounce, delaySeconds |-> delay]
\* operations.push({...})
HopOperation(from, to, amt, bounce, delay) ==
    [fromWalletIndex |-> from, toWalletIndex |-> to, amountPercent |-> amt,
     isBounceback |-> bounce, delaySeconds |-> delay]

\* the locals of generateHopItinerary before its while loop
PlannerStart ==
    [operations |-> <<>>, forwardIndex |-> 0, consecutiveBounces |-> 0,
     hopsSinceStart |-> 0, historyWindow |-> <<>>, currentWalletIndex |-> -1]

\* one iteration of the while loop in an execution of generateHopItinerary
\* whose locals are s, over the same wallets and configuration, given the
\* draws of the iteration
PlanIteration(s, rBounce, rDepth, rDelay, rAmount) ==
    LET canBounceBack ==
            /\ config.bounceBackProbability > 0
            /\ Len(s.historyWindow) > 0
            /\ s.hopsSinceStart >= config.minForwardBeforeBounce
            /\ s.consecutiveBounces < config.maxSequentialBounce
        shouldBounceBack ==
            canBounceBack /\ rBounce < config.bounceBackProbability
        maxDepth == Min(config.maxBounceBackDepth, Len(s.historyWindow))
        bounceDepth == (rDepth * maxDepth) \div 100 + 1
        bounced == s.historyWindow[Len(s.historyWindow) - bounceDepth + 1]
        isBounceback == shouldBounceBack /\ bounced # s.currentWalletIndex
        targetIndex == IF isBounceback THEN bounced ELSE s.forwardIndex
        pushed == Append(s.historyWindow, s.currentWalletIndex)
    IN  [operations |->
             Append(s.operations,
                    HopOperation(s.currentWalletIndex, targetIndex,
                                 AmountPercent(rAmount), isBounceback,
                                 CalculateDelayForMode(rDelay))),
         forwardIndex |->
             IF isBounceback THEN s.forwardIndex ELSE s.forwardIndex + 1,
         consecutiveBounces |->
             IF isBounceback THEN s.consecutiveBounces + 1 ELSE 0,
         hopsSinceStart |-> s.hopsSinceStart + 1,
         historyWindow |->
             IF shouldBounceBack \/ s.currentWalletIndex < 0
             THEN s.historyWindow
             ELSE IF Len(pushed) > config.maxBounceBackDepth
                  THEN Tail(pushed) ELSE pushed,
         currentWalletIndex |-> targetIndex]

\* ----------------------------------------------------------------- inputs

Configs(hops, probabilities, variances, spreads, recoveries) ==
    { c \in [minHops : hops, maxHops : hops,
             minDelaySeconds : 0..MaxDelay, maxDelaySeconds : 0..MaxDelay,
             enableRandomization : BOOLEAN, enableRecovery : recoveries,
             bounceBackProbability : probabilities,
             maxBounceBackDepth : 1..MaxDepth,
             minForwardBeforeBounce : {0, MaxMinForward},
             maxSequentialBounce : 0..MaxSeqBounce,
             amountVariancePercent : variances,
             stealthPreset : BOOLEAN] :
        /\ c.minHops <= c.maxHops
        /\ c.minDelaySeconds <= c.maxDelaySeconds
        /\ c.maxDelaySeconds - c.minDelaySeconds \in spreads }

InitWith(configs, amounts, balances) ==
    /\ config \in configs
    /\ finalAmount \in amounts
    /\ pc = "create"
    /\ hopWallets = <<>>
    /\ operations = <<>>
    /\ forwardIndex = 0
    /\ consecutiveBounces = 0
    /\ hopsSinceStart = 0
    /\ historyWindow = <<>>
    /\ currentWalletIndex = -1
    /\ replica = PlannerStart
    /\ i = 0
    /\ fromBalance = 0
    /\ transferAmount = 0
    /\ finalHopWallet = -1
    /\ totalBudgetInjected = 0
    /\ isFirstForward = TRUE
    /\ secondsLeft = 0
    /\ roundOff = 0
    /\ attempt = 0
    /\ totalDelay = 0
    /\ polls = 0
    /\ \E b \in balances :
          ledger = [w \in -1..(Max(config.minHops, config.maxHops) - 1) |->
                        IF w = -1 THEN b ELSE 0]
    /\ aborted = FALSE
    /\ recovery = <<>>
    /\ error = ""
    /\ inFlight = {}
    /\ sendCalls = 0
    /\ waitCount = 0
    /\ settled = {}
    /\ transfers = <<>>
    /\ progress = "none"
    /\ secretKeys = <<>>
    /\ now = 0
    /\ caller = "running"
    /\ serverCheckpoint = <<>>
    /\ lastRead = <<>>
    /\ sessionCalls = <<>>
    /\ otherRun = [pc |-> "running", i |-> 0]
    /\ accounting = <<>>
    /\ eta = <<>>

\* ------------------------------------------------------------------ actions

\* executeHopChain up to the call of generateHopItinerary
CreateChain ==
    /\ UNCHANGED roundOff
    /\ pc = "create"
    /\ \E r \in RandomDraws :
          /\ hopWallets' = [n \in 1..NumberOfHops(r) |-> NewHopWallet(n)]
          /\ secretKeys' = [n \in 1..NumberOfHops(r) |->
                                NewHopWallet(n).secretKey]
    /\ progress' = "creating"
    /\ pc' = "plan"
    /\ UNCHANGED <<callerVars, now, sideVars, config, finalAmount, planVars,
                   aborted, i, fromBalance, transferAmount, finalHopWallet,
                   totalBudgetInjected, isFirstForward, secondsLeft, attempt,
                   totalDelay, polls, ledger, recovery, error, inFlight,
                   sendCalls, waitCount, settled, transfers>>

\* one iteration of generateHopItinerary's while loop
PlanStep ==
    /\ pc = "plan"
    /\ forwardIndex < Len(hopWallets)
    /\ \E rBounce \in RandomDraws, rDepth \in RandomDraws,
          rDelay \in ShapeDraws, rAmount \in ShapeDraws :
          LET bounce == ShouldBounceBack(rBounce)
              selfHop == bounce /\ IsSelfHop(BounceTarget(rDepth))
              isBounceback == bounce /\ ~selfHop
              targetIndex == IF isBounceback THEN BounceTarget(rDepth)
                             ELSE ForwardTarget
          IN  /\ forwardIndex' = IF isBounceback THEN forwardIndex
                                 ELSE forwardIndex + 1
              /\ consecutiveBounces' = IF isBounceback
                                       THEN consecutiveBounces + 1 ELSE 0
              /\ historyWindow' = IF bounce THEN historyWindow ELSE PushHistory
              /\ operations' = Append(operations,
                     HopOperation(currentWalletIndex, targetIndex,
                                  AmountPercent(rAmount), isBounceback,
                                  CalculateDelayForMode(rDelay)))
              /\ currentWalletIndex' = targetIndex
              /\ hopsSinceStart' = hopsSinceStart + 1
              /\ replica' = PlanIteration(replica, rBounce, rDepth, rDelay,
                                          rAmount)
    /\ UNCHANGED <<sideVars, config, finalAmount, pc, hopWallets, execVars,
                   aborted>>

\* ----------------------------------------------------------- executeHopChain

totalOperations == Len(operations)
operation == operations[i + 1]
isLastOperation == i = totalOperations - 1

\* variant of AvailableToSend: the fee reserved twice
AvailableToSendLessTwoFees(balance) == Max(0, balance - 2 * TX_FEE)
\* Math.max(0, fromBalance - feeBuffer)
AvailableToSend(balance) == Max(0, balance - TX_FEE)

\* sourceBuffer of the first forward hop
SourceBuffer(op) == IF op.fromWalletIndex = -1 THEN SOURCE_BUFFER ELSE TX_FEE

\* variant of TransferAmountFor: the planned amount factor applied
TransferAmountSkimmed(op, balance) ==
    IF op.isBounceback
    THEN (AvailableToSend(balance) * op.amountPercent) \div 10000
    ELSE IF isFirstForward
         THEN Min(finalAmount, Max(0, balance - SourceBuffer(op)))
         ELSE (AvailableToSend(balance) * op.amountPercent) \div 10000
\* transferAmount of the branch the operation takes
TransferAmountFor(op, balance) ==
    IF op.isBounceback THEN AvailableToSend(balance)
    ELSE IF isFirstForward
         THEN Min(finalAmount, Max(0, balance - SourceBuffer(op)))
         ELSE AvailableToSend(balance)

\* variant of InsufficientBalance: the throw left out
InjectsPartially(amount) == FALSE
\* transferAmount < finalAmount, tested in the first-forward branch only
InsufficientBalance(amount) == amount < finalAmount

\* variant of TooSmall: the guard left out
TooSmallNever(amount) == FALSE
\* transferAmount < 0.000001
TooSmall(amount) == amount < MIN_TRANSFER

\* variant of TerminalOf: the sending wallet taken
TerminalFromSender(op) == op.fromWalletIndex
\* finalHopWallet = hopWallets[operation.toWalletIndex]
TerminalOf(op) == op.toWalletIndex

\* The amounts of the source are IEEE doubles in SOL, the chain's are whole
\* lamports.  balance / LAMPORTS_PER_SOL, the subtraction of the fee and
\* amount * LAMPORTS_PER_SOL each round, so requiredLamports is the exact
\* amount, or a fraction of a lamport below or above it: a balance of
\* 499995000 lamports reads as 0.499995, 0.499995 - 0.000005 is
\* 0.49999000000000005 and times 1e9 is 499990000.00000006.  roundOff is the
\* sign of that error.
RoundingErrors == {-1, 0, 1}

\* getBalance: the chain's balance, or 0 when the RPC call throws
GetBalance(w) == {ledger[w], 0}

\* the for loop's header after i has become n
LoopTo(n) ==
    /\ i' = n
    /\ pc' = IF n < totalOperations THEN "read" ELSE "done"

\* generateHopItinerary returns; executeHopChain runs up to its first await
PlanReturn ==
    /\ UNCHANGED roundOff
    /\ pc = "plan"
    /\ forwardIndex >= Len(hopWallets)
    /\ finalHopWallet' = Len(hopWallets) - 1
    /\ totalBudgetInjected' = 0
    /\ isFirstForward' = TRUE
    /\ progress' = "creating"
    /\ LoopTo(0)
    /\ UNCHANGED <<callerVars, secretKeys, now, sideVars, config, finalAmount,
                   hopWallets, planVars, aborted, fromBalance, transferAmount,
                   secondsLeft, attempt, totalDelay, polls, ledger, recovery,
                   error, inFlight, sendCalls, waitCount, settled, transfers>>

\* getBalance(fromWallet) returns: the amount is computed, and the operation
\* fails the run, is skipped, or goes on to its transfer
ReadBalance ==
    /\ pc = "read"
    /\ \E balance \in GetBalance(operation.fromWalletIndex) :
          LET amount == TransferAmountFor(operation, balance)
              first == ~operation.isBounceback /\ isFirstForward
              updatesFinal == ~operation.isBounceback /\ ~isFirstForward
                                 /\ isLastOperation
          IN  /\ fromBalance' = balance
              /\ transferAmount' = amount
              /\ totalBudgetInjected' = IF first THEN amount
                                        ELSE totalBudgetInjected
              /\ isFirstForward' = IF first THEN FALSE ELSE isFirstForward
              /\ finalHopWallet' = IF updatesFinal THEN TerminalOf(operation)
                                   ELSE finalHopWallet
              /\ IF first /\ InsufficientBalance(amount)
                 THEN /\ error' = "Insufficient balance"
                      /\ pc' = "failed"
                      /\ roundOff' = 0
                      /\ UNCHANGED <<i, settled, progress>>
                 ELSE IF TooSmall(amount)
                 THEN /\ settled' = settled \cup {i}
                      /\ LoopTo(i + 1)
                      /\ roundOff' = 0
                      /\ UNCHANGED <<error, progress>>
                 ELSE /\ progress' = "transferring"
                      /\ pc' = "send"
                      /\ roundOff' \in RoundingErrors
                      /\ UNCHANGED <<i, error, settled>>
    /\ sendCalls' = 0
    /\ waitCount' = 0
    /\ UNCHANGED <<callerVars, secretKeys, now, sideVars, config, finalAmount,
                   hopWallets, planVars, aborted, secondsLeft, attempt,
                   totalDelay, polls, ledger, recovery, inFlight, transfers>>

\* ----------------------------------------------------------- retryWithBackoff

\* variant of RetryLeft: <= for <
RetryLeftOneMore == attempt <= MAX_RETRIES
\* attempt < maxRetries
RetryLeft == attempt < MAX_RETRIES

\* variant of BackoffDelay: the exponent one too high
BackoffDelayFromTwo(r) ==
    LET delayMs == BASE_DELAY_MS * 2 ^ (attempt + 1)
    IN  delayMs + (r * 3 * delayMs) \div 1000
\* delayMs + Math.random() * 0.3 * delayMs, delayMs = baseDelayMs * 2^attempt
BackoffDelay(r) ==
    LET delayMs == BASE_DELAY_MS * 2 ^ attempt
    IN  delayMs + (r * 3 * delayMs) \div 1000

\* fn() is called: sendSOL(fromWallet.secretKey, toWallet.publicKey, amount)
IssueSend ==
    /\ UNCHANGED roundOff
    /\ pc = "send"
    /\ inFlight' = inFlight \cup {i}
    /\ sendCalls' = sendCalls + 1
    /\ pc' = "sending"
    /\ UNCHANGED <<callerVars, secretKeys, now, sideVars, config, finalAmount,
                   hopWallets, planVars, aborted, i, fromBalance,
                   transferAmount, finalHopWallet, totalBudgetInjected,
                   isFirstForward, secondsLeft, attempt, totalDelay, polls,
                   ledger, recovery, error, waitCount, settled, transfers,
                   progress>>

\* variant of AfterTransfer: the confirmation not awaited
AfterTransferUnconfirmed == "delay"
\* what follows the awaited retryWithBackoff: await confirmHopBalance(...)
AfterTransfer == "confirm"

\* sendSOL's own balance check: balance < requiredLamports + estimatedFee,
\* requiredLamports being amount and the rounding error roundOff
LedgerRejects(from, amount) ==
    \/ ledger[from] < amount + ESTIMATED_FEE
    \/ ledger[from] = amount + ESTIMATED_FEE /\ roundOff > 0

\* sendSOL returns a signature: the chain moved the amount (to the whole
\* micro-SOL) and charged the fee; retryWithBackoff returns and its locals
\* are gone
SendSucceeds ==
    /\ pc = "sending"
    /\ ~LedgerRejects(operation.fromWalletIndex, transferAmount)
    /\ ledger' = [ledger EXCEPT
                    ![operation.fromWalletIndex] = @ - transferAmount - ESTIMATED_FEE,
                    ![operation.toWalletIndex] = @ + transferAmount]
    /\ transfers' = Append(transfers,
                        [op |-> i, from |-> operation.fromWalletIndex,
                         to |-> operation.toWalletIndex,
                         amount |-> transferAmount])
    /\ inFlight' = inFlight \ {i}
    /\ attempt' = 0
    /\ totalDelay' = 0
    /\ roundOff' = 0
    /\ polls' = 0
    /\ pc' = AfterTransfer
    /\ UNCHANGED <<callerVars, secretKeys, now, sideVars, config, finalAmount,
                   hopWallets, planVars, aborted, i, fromBalance,
                   transferAmount, finalHopWallet, totalBudgetInjected,
                   isFirstForward, secondsLeft, recovery, error, sendCalls,
                   waitCount, settled, progress>>

\* sendSOL throws (its balance check, or the network): retryWithBackoff's catch
SendFails ==
    /\ UNCHANGED roundOff
    /\ pc = "sending"
    /\ inFlight' = inFlight \ {i}
    /\ IF RetryLeft
       THEN /\ \E r \in RandomDraws : totalDelay' = BackoffDelay(r)
            /\ waitCount' = waitCount + 1
            /\ pc' = "backoff"
            /\ UNCHANGED error
       ELSE /\ error' = "failed after 4 attempts"
            /\ pc' = "failed"
            /\ UNCHANGED <<totalDelay, waitCount>>
    /\ UNCHANGED <<callerVars, secretKeys, now, sideVars, config, finalAmount,
                   hopWallets, planVars, aborted, i, fromBalance,
                   transferAmount, finalHopWallet, totalBudgetInjected,
                   isFirstForward, secondsLeft, attempt, polls, ledger,
                   recovery, sendCalls, settled, transfers, progress>>

\* the backoff timer fires: attempt++ and the next call of fn()
BackoffElapsed ==
    /\ UNCHANGED roundOff
    /\ pc = "backoff"
    /\ attempt' = attempt + 1
    /\ pc' = "send"
    /\ UNCHANGED <<callerVars, secretKeys, now, sideVars, config, finalAmount,
                   hopWallets, planVars, aborted, i, fromBalance,
                   transferAmount, finalHopWallet, totalBudgetInjected,
                   isFirstForward, secondsLeft, totalDelay, polls, ledger,
                   recovery, error, inFlight, sendCalls, waitCount, settled,
                   transfers, progress>>

\* ---------------------------------------------------------- confirmHopBalance

\* i < maxRetries
PollsLeft == polls < CONFIRM_RETRIES

\* variant of Arrived: no tolerance
ArrivedExactly(balance) == balance >= transferAmount
\* balance >= expectedAmount - tolerance
Arrived(balance) == balance >= transferAmount - TOLERANCE

\* saveHopState(...): the record written to sessionStorage
HopState ==
    [currentHop |-> i + 1, totalHops |-> totalOperations,
     hopWallets |-> hopWallets, finalAmount |-> finalAmount,
     completed |-> isLastOperation, timestamp |-> now]

\* one getBalance(toWallet) of confirmHopBalance; when the balance has
\* arrived, executeHopChain runs on to its next await
PollBalance ==
    /\ UNCHANGED roundOff
    /\ pc = "confirm"
    /\ PollsLeft
    /\ \E balance \in GetBalance(operation.toWalletIndex) :
          IF Arrived(balance)
          THEN /\ settled' = settled \cup {i}
               /\ recovery' = IF config.enableRecovery THEN <<HopState>>
                           ELSE recovery
               /\ IF isLastOperation
                  THEN /\ progress' = "completed"
                       /\ LoopTo(i + 1)
                       /\ UNCHANGED secondsLeft
                  ELSE /\ progress' = "waiting"
                       /\ secondsLeft' = operation.delaySeconds
                       /\ pc' = "delay"
                       /\ UNCHANGED i
               /\ polls' = 0
          ELSE /\ polls' = polls + 1
               /\ UNCHANGED <<pc, i, settled, recovery, progress, secondsLeft>>
    /\ UNCHANGED <<callerVars, secretKeys, now, sideVars, config, finalAmount,
                   hopWallets, planVars, aborted, fromBalance, transferAmount,
                   finalHopWallet, totalBudgetInjected, isFirstForward,
                   attempt, totalDelay, ledger, error, inFlight, sendCalls,
                   waitCount, transfers>>

\* the error executeDelay rejects with
CancelError == "Hop chain cancelled"

\* variant of ConfirmError: the error of a cancelled delay
ConfirmErrorCancelled == CancelError
\* the error thrown when confirmHopBalance returns false
ConfirmError == "confirmation timeout"

\* confirmHopBalance returns false: the run throws
ConfirmTimeout ==
    /\ UNCHANGED roundOff
    /\ pc = "confirm"
    /\ ~PollsLeft
    /\ error' = ConfirmError
    /\ pc' = "failed"
    /\ UNCHANGED <<callerVars, secretKeys, now, sideVars, config, finalAmount,
                   hopWallets, planVars, aborted, i, fromBalance,
                   transferAmount, finalHopWallet, totalBudgetInjected,
                   isFirstForward, secondsLeft, attempt, totalDelay, polls,
                   ledger, recovery, inFlight, sendCalls, waitCount, settled,
                   transfers, progress>>

\* ---------------------------------------------------------------- executeDelay

\* variant of AbortSignal: the flag not looked at
AbortSignalIgnored == FALSE
\* abortSignal?.()
AbortSignal == aborted

\* one tick of executeDelay's interval, TICK_MS after the one before
DelayTick ==
    /\ UNCHANGED roundOff
    /\ pc = "delay"
    /\ now' = now + TICK_MS
    /\ IF AbortSignal
       THEN /\ error' = CancelError
            /\ pc' = "failed"
            /\ UNCHANGED <<secondsLeft, i, progress>>
       ELSE /\ secondsLeft' = secondsLeft - 1
            /\ progress' = "waiting"
            /\ IF secondsLeft - 1 <= 0
               THEN LoopTo(i + 1)
               ELSE UNCHANGED <<pc, i>>
            /\ UNCHANGED error
    /\ UNCHANGED <<callerVars, secretKeys, sideVars, config, finalAmount,
                   hopWallets, planVars, aborted, fromBalance, transferAmount,
                   finalHopWallet, totalBudgetInjected, isFirstForward,
                   attempt, totalDelay, polls, ledger, recovery, inFlight,
                   sendCalls, waitCount, settled, transfers>>

\* the caller's abort flag is raised while the run is under way
Abort ==
    /\ pc \notin {"done", "failed"}
    /\ ~aborted
    /\ aborted' = TRUE
    /\ UNCHANGED <<sideVars, config, finalAmount, pc, hopWallets, planVars,
                   execVars>>

\* ------------------------------------------------ MixerDialog's onSubmit

\* JSON.stringify of the wallet objects of an array
WalletObjects(ws) ==
    [n \in 1..Len(ws) |->
        [hopNumber |-> ws[n].hopNumber,
         secretKey |-> secretKeys[ws[n].hopNumber]]]

\* executeHopChain returned: the post-hop checkpoint is posted to the server,
\* unless there is no session or the request fails
CallerCheckpoint ==
    /\ pc = "done"
    /\ caller = "running"
    /\ \E saved \in BOOLEAN :
          serverCheckpoint' =
              IF saved
              THEN <<[status |-> "hopping",
                      hopWallets |-> WalletObjects(hopWallets),
                      hopConfig |-> config]>>
              ELSE serverCheckpoint
    /\ caller' = "returned"
    /\ UNCHANGED <<sideVars, config, finalAmount, pc, hopWallets, planVars,
                   aborted, i, fromBalance, transferAmount, finalHopWallet,
                   totalBudgetInjected, isFirstForward, secondsLeft, attempt,
                   totalDelay, polls, ledger, recovery, error, inFlight,
                   sendCalls, waitCount, settled, transfers, progress,
                   roundOff, secretKeys, now, lastRead, sessionCalls>>

\* steps 4 to 8 of onSubmit succeed: completeSession(currentSessionId) is
\* called and the cleanup timer is set.  sessionCalls holds the calls made
\* when the session was created (currentSessionId is set).
CallerDelivers ==
    /\ caller = "returned"
    /\ finalHopWallet >= 0
    /\ sessionCalls' = Append(sessionCalls, "complete")
    /\ caller' = "finished"
    /\ UNCHANGED <<sideVars, config, finalAmount, pc, hopWallets, planVars,
                   aborted, i, fromBalance, transferAmount, finalHopWallet,
                   totalBudgetInjected, isFirstForward, secondsLeft, attempt,
                   totalDelay, polls, ledger, recovery, error, inFlight,
                   sendCalls, waitCount, settled, transfers, progress,
                   roundOff, secretKeys, now, serverCheckpoint, lastRead>>

\* one of the steps 4 to 7 of onSubmit throws: the outer catch calls
\* failSession; when the platform fee transfer is what threw, its own catch
\* has called failSession before it rethrew
CallerThrows ==
    /\ caller = "returned"
    /\ \E feeError \in BOOLEAN :
          sessionCalls' = IF feeError
                          THEN sessionCalls \o <<"fail", "fail">>
                          ELSE Append(sessionCalls, "fail")
    /\ caller' = "caught"
    /\ UNCHANGED <<sideVars, config, finalAmount, pc, hopWallets, planVars,
                   aborted, i, fromBalance, transferAmount, finalHopWallet,
                   totalBudgetInjected, isFirstForward, secondsLeft, attempt,
                   totalDelay, polls, ledger, recovery, error, inFlight,
                   sendCalls, waitCount, settled, transfers, progress,
                   roundOff, secretKeys, now, serverCheckpoint, lastRead>>

\* executeHopChain threw: the inner catch calls failSession and rethrows
\* 'Privacy hop failed: ...'; the outer catch, whose test for 'Privacy delay
\* cancelled' that message never meets, calls failSession and reports the
\* failure
CallerCatch ==
    /\ pc = "failed"
    /\ caller = "running"
    /\ sessionCalls' = sessionCalls \o <<"fail", "fail">>
    /\ caller' = "caught"
    /\ UNCHANGED <<sideVars, config, finalAmount, pc, hopWallets, planVars,
                   aborted, i, fromBalance, transferAmount, finalHopWallet,
                   totalBudgetInjected, isFirstForward, secondsLeft, attempt,
                   totalDelay, polls, ledger, recovery, error, inFlight,
                   sendCalls, waitCount, settled, transfers, progress,
                   roundOff, secretKeys, now, serverCheckpoint, lastRead>>

\* the cleanup timer fires: cleanupHopWallets(hopWalletsArray)
CleanupHopWallets ==
    /\ caller = "finished"
    /\ secretKeys' = [n \in DOMAIN secretKeys |->
                         IF \E k \in 1..Len(hopWallets) :
                                hopWallets[k].hopNumber = n
                         THEN "" ELSE secretKeys[n]]
    /\ hopWallets' = <<>>
    /\ recovery' = <<>>
    /\ caller' = "cleaned"
    /\ UNCHANGED <<sideVars, config, finalAmount, pc, planVars, aborted, i,
                   fromBalance, transferAmount, finalHopWallet,
                   totalBudgetInjected, isFirstForward, secondsLeft, attempt,
                   totalDelay, polls, ledger, error, inFlight, sendCalls,
                   waitCount, settled, transfers, progress, roundOff, now,
                   serverCheckpoint, lastRead, sessionCalls>>

\* -------------------------------------------------------------- getHopState

\* variant of Expired: >= for >
ExpiredAtTtl(state) == now - state.timestamp >= TTL_MS
\* Date.now() - state.timestamp > 3600000
Expired(state) == now - state.timestamp > TTL_MS

\* onSubmit has run to its end
SubmitOver == caller \in {"caught", "finished", "cleaned"}

\* the clock runs on after the run, to an instant around the expiry of the
\* stored checkpoint
TimePasses ==
    /\ SubmitOver
    /\ recovery # <<>>
    /\ \E late \in -1..MaxLateness :
          /\ recovery[1].timestamp + TTL_MS + late > now
          /\ now' = recovery[1].timestamp + TTL_MS + late
    /\ UNCHANGED <<sideVars, config, finalAmount, pc, hopWallets, planVars,
                   aborted, i, fromBalance, transferAmount, finalHopWallet,
                   totalBudgetInjected, isFirstForward, secondsLeft, attempt,
                   totalDelay, polls, ledger, recovery, error, inFlight,
                   sendCalls, waitCount, settled, transfers, progress,
                   roundOff, secretKeys, callerVars>>

\* a call of getHopState() after the run; sessionStorage holds what
\* JSON.stringify made of the record, numbers, strings, booleans and arrays
\* of them, which JSON.parse gives back field by field
GetHopState ==
    /\ SubmitOver
    /\ LET stored == recovery
           void == stored = <<>> \/ Expired(stored[1])
       IN  /\ recovery' = IF void THEN <<>> ELSE recovery
           /\ lastRead' = IF void THEN <<>> ELSE stored
    /\ UNCHANGED <<sideVars, config, finalAmount, pc, hopWallets, planVars,
                   aborted, i, fromBalance, transferAmount, finalHopWallet,
                   totalBudgetInjected, isFirstForward, secondsLeft, attempt,
                   totalDelay, polls, ledger, error, inFlight, sendCalls,
                   waitCount, settled, transfers, progress, roundOff,
                   secretKeys, now, caller, serverCheckpoint, sessionCalls>>

\* ------------------------------------------------- a second run of the page

\* The second run executes the same configuration on a chain of its own:
\* createHopChain gives it fresh keypairs, and its transfers move funds
\* between its own wallets.  Of its steps the ones below reach state that
\* the first run reads or writes: sessionStorage[RECOVERY_KEY].
OtherHopWallets ==
    [n \in 1..config.minHops |->
        [hopNumber |-> n, secretKey |-> "secret of the other run"]]

\* the second run's operation otherRun.i is confirmed: saveHopState(...)
OtherRunConfirms ==
    /\ otherRun.pc = "running"
    /\ otherRun.i < config.minHops
    /\ LET last == otherRun.i = config.minHops - 1
       IN  /\ recovery' =
                 IF config.enableRecovery
                 THEN <<[currentHop |-> otherRun.i + 1,
                         totalHops |-> config.minHops,
                         hopWallets |-> OtherHopWallets,
                         finalAmount |-> finalAmount,
                         completed |-> last, timestamp |-> now]>>
                 ELSE recovery
           /\ otherRun' = [pc |-> IF last THEN "done" ELSE "running",
                           i |-> otherRun.i + 1]
    /\ UNCHANGED <<accounting, eta, config, finalAmount, pc, hopWallets,
                   planVars, aborted, i, fromBalance, transferAmount,
                   finalHopWallet, totalBudgetInjected, isFirstForward,
                   secondsLeft, attempt, totalDelay, polls, ledger, error,
                   inFlight, sendCalls, waitCount, settled, transfers,
                   progress, roundOff, secretKeys, now, callerVars>>

\* the second run's cleanup timer fires: cleanupHopWallets ends with
\* clearHopState()
OtherRunCleanup ==
    /\ otherRun.pc = "done"
    /\ recovery' = <<>>
    /\ otherRun' = [otherRun EXCEPT !.pc = "cleaned"]
    /\ UNCHANGED <<accounting, eta, config, finalAmount, pc, hopWallets,
                   planVars, aborted, i, fromBalance, transferAmount,
                   finalHopWallet, totalBudgetInjected, isFirstForward,
                   secondsLeft, attempt, totalDelay, polls, ledger, error,
                   inFlight, sendCalls, waitCount, settled, transfers,
                   progress, roundOff, secretKeys, now, callerVars>>

\* ------------------------------------------------------ accounting ledger

\* const SOURCE_SAFETY = 0.0005, in micro-SOL
SOURCE_SAFETY == 500

\* preprocessItinerary(itinerary): the Map from a sender's index to the
\* number of its sends, built operation by operation
RECURSIVE PreprocessItinerary(_)
PreprocessItinerary(itinerary) ==
    IF itinerary = <<>>
    THEN [x \in {} |-> 0]
    ELSE LET scheduledSends ==
                 PreprocessItinerary(SubSeq(itinerary, 1, Len(itinerary) - 1))
             fromIndex == itinerary[Len(itinerary)].fromWalletIndex
         IN  [x \in DOMAIN scheduledSends \cup {fromIndex} |->
                 IF x = fromIndex
                 THEN (IF x \in DOMAIN scheduledSends
                       THEN scheduledSends[x] ELSE 0) + 1
                 ELSE scheduledSends[x]]

\* variant of IsSourceWallet: the first hop wallet taken for the source
IsSourceWalletFirstHop(walletIndex) == walletIndex = 0
\* walletIndex === -1
IsSourceWallet(walletIndex) == walletIndex = -1

\* initializeAccounting(finalAmount, scheduledSends)
InitializeAccounting(amount, scheduledSends) ==
    [remainingBudget |-> amount,
     deliveredSoFar |-> 0,
     scheduledSends |-> scheduledSends,
     feeEscrow |-> [walletIndex \in DOMAIN scheduledSends |->
                       TX_FEE * scheduledSends[walletIndex]
                           + (IF IsSourceWallet(walletIndex)
                              THEN SOURCE_SAFETY ELSE 0)],
     perWalletBalance |-> <<>>,
     ledger |-> <<>>]

\* the precompute on the itinerary generateHopItinerary returned.
\* executeHopChain makes neither call, so this step is no part of a run
\* (Next); it applies the two functions to the planned itineraries.
Precompute ==
    /\ pc = "plan"
    /\ forwardIndex >= Len(hopWallets)
    /\ accounting = <<>>
    /\ accounting' = <<InitializeAccounting(finalAmount,
                           PreprocessItinerary(operations))>>
    /\ UNCHANGED <<otherRun, eta, config, finalAmount, pc, hopWallets,
                   planVars, execVars, aborted>>

\* ------------------------------------------------------------ etaCalculator

\* const exchangeProcessingSeconds = 450
EXCHANGE_PROCESSING == 450

\* variant of HopChainDelaySeconds: Math.floor for Math.ceil
HopChainDelayFloor(c) ==
    ((c.minHops + c.maxHops) * (c.minDelaySeconds + c.maxDelaySeconds))
        \div 4
\* Math.ceil(avgHops * avgDelayPerHop), avgHops = (minHops + maxHops) / 2
\* and avgDelayPerHop = (minDelaySeconds + maxDelaySeconds) / 2: the halves
\* and their product, a number of quarters, are exact in floating point
HopChainDelaySeconds(c) ==
    ((c.minHops + c.maxHops) * (c.minDelaySeconds + c.maxDelaySeconds) + 3)
        \div 4

\* formatDuration(seconds), seconds a whole number: Math.ceil(seconds) and
\* Math.ceil(seconds % 60) are then seconds and seconds % 60; a template
\* literal writes a number in decimal digits
FormatDuration(seconds) ==
    IF seconds < 60
    THEN ToString(seconds) \o "s"
    ELSE LET minutes == seconds \div 60
             remainingSeconds == seconds % 60
         IN  IF minutes < 60
             THEN IF remainingSeconds > 0
                  THEN ToString(minutes) \o "m " \o
                       ToString(remainingSeconds) \o "s"
                  ELSE ToString(minutes) \o "m"
             ELSE LET hours == minutes \div 60
                      remainingMinutes == minutes % 60
                  IN  IF remainingMinutes > 0
                      THEN ToString(hours) \o "h " \o
                           ToString(remainingMinutes) \o "m"
                      ELSE ToString(hours) \o "h"

CalculateMixerETA(c, enableInitialDelay, initialDelayMinutes) ==
    LET initialDelaySeconds ==
            IF enableInitialDelay THEN initialDelayMinutes * 60 ELSE 0
        hopChainDelaySeconds == HopChainDelaySeconds(c)
        totalSeconds == initialDelaySeconds + hopChainDelaySeconds
                            + EXCHANGE_PROCESSING
    IN  [totalSeconds |-> totalSeconds,
         formattedTime |-> FormatDuration(totalSeconds),
         breakdown |-> [initialDelay |-> initialDelaySeconds,
                        hopChainDelays |-> hopChainDelaySeconds,
                        exchangeProcessing |-> EXCHANGE_PROCESSING]]

\* variant of HopRemaining: without Math.max(0, ...)
HopRemainingUnclamped(breakdown, elapsedSeconds) ==
    breakdown.hopChainDelays - (elapsedSeconds - breakdown.initialDelay)
\* hopRemaining of the stage 'hopping'
HopRemaining(breakdown, elapsedSeconds) ==
    LET hopElapsed == elapsedSeconds - breakdown.initialDelay
    IN  Max(0, breakdown.hopChainDelays - hopElapsed)

CalculateRemainingETA(originalETA, elapsedSeconds, currentStage) ==
    LET breakdown == originalETA.breakdown
        remainingSeconds ==
            IF currentStage = "delaying"
            THEN Max(0, breakdown.initialDelay - elapsedSeconds)
                     + breakdown.hopChainDelays + breakdown.exchangeProcessing
            ELSE IF currentStage = "hopping"
            THEN HopRemaining(breakdown, elapsedSeconds)
                     + breakdown.exchangeProcessing
            ELSE IF currentStage \in {"exchanging", "sending"}
            THEN LET exchangeElapsed ==
                         elapsedSeconds - breakdown.initialDelay
                             - breakdown.hopChainDelays
                 IN  Max(0, breakdown.exchangeProcessing - exchangeElapsed)
            ELSE Max(0, originalETA.totalSeconds - elapsedSeconds)
    IN  [totalSeconds |-> remainingSeconds,
         formattedTime |-> FormatDuration(remainingSeconds),
         breakdown |-> breakdown]

Stages == {"delaying", "hopping", "exchanging", "sending"}

\* the instants at which the ETA is recomputed: the start, and the ends of
\* the estimate's three buckets, each a second early, on time and late
ElapsedAround(estimate) ==
    LET ends == {0, estimate.breakdown.initialDelay,
                 estimate.breakdown.initialDelay
                     + estimate.breakdown.hopChainDelays,
                 estimate.totalSeconds}
    IN  {e \in {t + d : t \in ends, d \in {-1, 0, 1}} : e >= 0}

\* onSubmit computes the estimate of the run it is about to start
EstimateETA ==
    /\ eta = <<>>
    /\ \E enableDelay \in BOOLEAN, delayMinutes \in {0, MaxInitialMinutes} :
          eta' = <<[enableInitialDelay |-> enableDelay,
                    initialDelayMinutes |-> delayMinutes,
                    estimate |-> CalculateMixerETA(config, enableDelay,
                                                   delayMinutes),
                    previous |-> <<>>, latest |-> <<>>]>>
    /\ UNCHANGED <<otherRun, accounting, config, finalAmount, pc,
                   hopWallets, planVars, execVars, aborted>>

\* the remaining time is recomputed as the session goes on, the clock never
\* running backward
UpdateETA ==
    /\ eta # <<>>
    /\ \E elapsedSeconds \in ElapsedAround(eta[1].estimate),
          currentStage \in Stages :
          /\ eta[1].latest # <<>>
                => eta[1].latest[1].elapsedSeconds <= elapsedSeconds
          /\ eta' = <<[eta[1] EXCEPT
                 !.previous = eta[1].latest,
                 !.latest = <<[elapsedSeconds |-> elapsedSeconds,
                               currentStage |-> currentStage,
                               remaining |->
                                   CalculateRemainingETA(eta[1].estimate,
                                       elapsedSeconds, currentStage)]>>]>>
    /\ UNCHANGED <<otherRun, accounting, config, finalAmount, pc,
                   hopWallets, planVars, execVars, aborted>>

\* ----------------------------------------------------------- specifications

NextPlan == CreateChain \/ PlanStep

\* the plans: every routing setting; with randomization a fixed delay and
\* amount factor, without it every delay range, variance and preset
PlanConfigs ==
    { c \in Configs(0..MaxHops, {0, 50, 100}, {0, MaxVariance}, 0..MaxDelay,
                    {FALSE}) :
        c.enableRandomization
            => /\ ~c.stealthPreset
               /\ c.amountVariancePercent = 0
               /\ c.minDelaySeconds = c.maxDelaySeconds }

InitPlan == InitWith(PlanConfigs, {0}, {0})

SpecPlan == InitPlan /\ [][NextPlan]_vars

\* the planner is synchronous code: once called, it runs on while its loop
\* condition holds
SpecPlanFair == SpecPlan /\ WF_vars(NextPlan)

\* target amounts and source balances of a run, in micro-SOL: a target below
\* and one above the confirmation tolerance, and one no source can pay; a
\* source below and one above the source buffer
FinalAmounts == {20, 2000, 5000}
SourceBalances == {500, 3000}

\* the runs: a fixed chain length, no delay or the longest, no stealth
\* delays, one configuration of those that plan no bounce-back and the one
\* with the deepest and the most bounce-backs
RunConfigs ==
    { c \in Configs(0..MaxRunHops, {0, 50}, {0}, {0}, BOOLEAN) :
        /\ c.minHops = c.maxHops
        /\ ~c.enableRandomization
        /\ ~c.stealthPreset
        /\ c.minForwardBeforeBounce = 0
        /\ c.minDelaySeconds \in {0, MaxDelay}
        /\ c.bounceBackProbability = 0
              => c.maxBounceBackDepth = 1 /\ c.maxSequentialBounce = 0
        /\ c.bounceBackProbability > 0
              => /\ c.maxBounceBackDepth = MaxDepth
                 /\ c.maxSequentialBounce = MaxSeqBounce }

Init == InitWith(RunConfigs, FinalAmounts, SourceBalances)

\* the steps of executeHopChain and of its abort flag
EngineNext ==
    \/ CreateChain
    \/ PlanStep
    \/ PlanReturn
    \/ ReadBalance
    \/ IssueSend
    \/ SendSucceeds
    \/ SendFails
    \/ BackoffElapsed
    \/ PollBalance
    \/ ConfirmTimeout
    \/ DelayTick
    \/ Abort

\* the steps of onSubmit around the run
CallerNext ==
    \/ CallerCheckpoint
    \/ CallerDelivers
    \/ CallerThrows
    \/ CallerCatch
    \/ CleanupHopWallets

Next == EngineNext \/ CallerNext

Spec == Init /\ [][Next]_vars

\* the runs that write checkpoints, followed by the clock and by reads of
\* the checkpoint
StoreConfigs ==
    { c \in RunConfigs :
        c.enableRecovery /\ c.minHops >= 1 /\ c.bounceBackProbability = 0 }

InitStore == InitWith(StoreConfigs, {2000}, {3000})

NextStore == Next \/ TimePasses \/ GetHopState

SpecStore == InitStore /\ [][NextStore]_vars

\* two runs of one page with recovery enabled, their steps interleaved
TwoRunConfigs == { c \in StoreConfigs : c.minDelaySeconds = 0 }

InitTwoRuns == InitWith(TwoRunConfigs, {2000}, {3000})

NextTwoRuns == Next \/ OtherRunConfirms \/ OtherRunCleanup

SpecTwoRuns == InitTwoRuns /\ [][NextTwoRuns]_vars

\* a configuration of the runs above
UsualConfig ==
    [minHops |-> 2, maxHops |-> 2, minDelaySeconds |-> 0,
     maxDelaySeconds |-> 0, enableRandomization |-> FALSE,
     enableRecovery |-> FALSE, bounceBackProbability |-> 0,
     maxBounceBackDepth |-> 1, minForwardBeforeBounce |-> 0,
     maxSequentialBounce |-> 1, amountVariancePercent |-> 0,
     stealthPreset |-> FALSE]

\* configurations executeHopChain may be called with all the same: more
\* minHops than maxHops, a longer minimal than maximal delay, a probability
\* above 100 and bounce-backs of depth 0
UnusualConfigs ==
    { [UsualConfig EXCEPT !.maxHops = 1],
      [UsualConfig EXCEPT !.maxHops = 1, !.enableRandomization = TRUE],
      [UsualConfig EXCEPT !.minDelaySeconds = 1],
      [UsualConfig EXCEPT !.bounceBackProbability = 150],
      [UsualConfig EXCEPT !.bounceBackProbability = 50,
                          !.maxBounceBackDepth = 0] }

InitAnyConfig == InitWith(UnusualConfigs, {2000}, {3000})

SpecAnyConfig == InitAnyConfig /\ [][Next]_vars

\* the estimates: hop counts and delays between the least and the most of
\* the presets' ranges, with and without an initial delay
EtaConfigs ==
    { [UsualConfig EXCEPT !.minHops = h[1], !.maxHops = h[2],
                          !.minDelaySeconds = d[1], !.maxDelaySeconds = d[2]] :
        h \in {x \in {2, MaxEtaHops} \X {2, MaxEtaHops} : x[1] <= x[2]},
        d \in {x \in {5, MaxEtaDelay} \X {5, MaxEtaDelay} : x[1] <= x[2]} }

InitEta == InitWith(EtaConfigs, {2000}, {3000})

NextEta == EstimateETA \/ UpdateETA

SpecEta == InitEta /\ [][NextEta]_vars

\* the itineraries the precompute is applied to: every routing setting,
\* with fixed delays and amounts
AccountingConfigs ==
    { c \in PlanConfigs :
        /\ ~c.enableRandomization /\ ~c.stealthPreset
        /\ c.amountVariancePercent = 0 /\ c.maxDelaySeconds = 0 }

InitAccounting == InitWith(AccountingConfigs, {2000}, {3000})

NextAccounting == CreateChain \/ PlanStep \/ Precompute

SpecAccounting == InitAccounting /\ [][NextAccounting]_vars

\* the plans of randomized configurations that name a delay mode: the
\* interface has both delayMode ('fast' | 'balanced' | 'stealth') and
\* stealthPreset, each optional and set on its own
ModeConfigs ==
    { c @@ [delayMode |-> m] :
        c \in { d \in Configs(1..2, {0}, {0}, 0..MaxDelay, {FALSE}) :
                  /\ d.enableRandomization
                  /\ d.maxBounceBackDepth = 1
                  /\ d.minForwardBeforeBounce = 0
                  /\ d.maxSequentialBounce = 0 },
        m \in {"fast", "balanced", "stealth"} }

InitModes == InitWith(ModeConfigs, {2000}, {3000})

SpecModes == InitModes /\ [][NextPlan]_vars

\* runs whose itinerary carries amount factors other than 100 percent:
\* randomization with an amount variance, straight chains of 1 and 2 wallets
VarianceConfigs ==
    { [UsualConfig EXCEPT !.minHops = n, !.maxHops = n,
                          !.enableRandomization = TRUE,
                          !.amountVariancePercent = MaxVariance] :
        n \in 1..2 }

InitVariance == InitWith(VarianceConfigs, {2000}, {3000})

SpecVariance == InitVariance /\ [][Next]_vars

\* ------------------------------------------------------- itinerary claims

ForwardOps == SelectSeq(operations, LAMBDA op : ~op.isBounceback)

\* C1: no operation of the itinerary has fromWalletIndex equal to
\* toWalletIndex, at any point of planning and in the returned itinerary.
C1_NoSelfTransfer ==
    \A k \in 1..Len(operations) :
        operations[k].fromWalletIndex # operations[k].toWalletIndex

\* C1 witness: a bounce-back was drawn whose target was the current wallet
\* (the operation before it bounced back to the newest history entry and the
\* bounce limit still allowed another bounce), and a forward hop was emitted.
C1_Witness ==
    /\ pc = "plan"
    /\ forwardIndex = Len(hopWallets)
    /\ \E k \in 2..Len(operations) :
          /\ operations[k - 1].isBounceback
          /\ ~operations[k].isBounceback
          /\ config.maxSequentialBounce >= 2
          /\ config.bounceBackProbability = 100
          /\ config.maxBounceBackDepth = 1

\* C2: the forward operations of the itinerary target 0, 1, 2, ... in this
\* order, and the returned itinerary has exactly N of them.
C2_ForwardOncePerWallet ==
    /\ \A k \in 1..Len(ForwardOps) : ForwardOps[k].toWalletIndex = k - 1
    /\ Len(ForwardOps) = forwardIndex
    /\ (pc = "plan" /\ forwardIndex >= Len(hopWallets))
          => Len(ForwardOps) = Len(hopWallets)

\* C2 witness: a returned itinerary over 3 wallets holding bounce-backs.
C2_Witness ==
    /\ pc = "plan"
    /\ forwardIndex = Len(hopWallets)
    /\ Len(hopWallets) = 3
    /\ Len(operations) > 3
    /\ Len(ForwardOps) = 3

\* ------------------------------------------------------------- run claims

RECURSIVE DeliveredIn(_, _)
\* the amount the first n executed transfers delivered into wallet w
DeliveredIn(w, n) ==
    IF n = 0 THEN 0
    ELSE DeliveredIn(w, n - 1)
            + (IF transfers[n].to = w THEN transfers[n].amount ELSE 0)

Transferring == pc \in {"send", "sending", "backoff"}

\* C3 (as claimed): a run that returns after transferring every operation of
\* its itinerary has delivered exactly finalAmount into the returned wallet.
C3_ExactDelivery ==
    (pc = "done" /\ totalOperations > 0 /\ Len(transfers) = totalOperations)
        => DeliveredIn(finalHopWallet, Len(transfers)) = finalAmount

\* C4: in a run that reaches its first operation, a source whose balance
\* minus the source buffer is below the target fails the run with the
\* insufficient-balance error before any sendSOL call; and the first transfer
\* a run executes moves exactly the target out of the source.
C4_NoPartialInjection ==
    /\ error = "Insufficient balance"
          => /\ pc = "failed"
             /\ i = 0
             /\ sendCalls = 0
             /\ inFlight = {}
             /\ transfers = <<>>
    /\ transfers # <<>>
          => /\ transfers[1].op = 0
             /\ transfers[1].from = -1
             /\ transfers[1].amount = finalAmount
    /\ (/\ transfers = <<>>
        /\ ledger[-1] - SOURCE_BUFFER < finalAmount
        /\ totalOperations > 0
        /\ pc \notin {"create", "plan"}
        /\ ~(pc = "read" /\ i = 0))
          => /\ pc = "failed"
             /\ error = "Insufficient balance"
             /\ sendCalls = 0

\* C4 witness: the source holds 3000, the target is 5000, the run failed.
C4_Witness ==
    /\ pc = "failed"
    /\ error = "Insufficient balance"
    /\ ledger[-1] = 3000
    /\ finalAmount = 5000
    /\ totalOperations > 1

\* C5: sendSOL is called at most 4 times for an operation; when the 4th call
\* fails the run has ended with the error, the operation is not counted as
\* done, and no step of the run (no later transfer) follows.
C5_RetriesExhausted ==
    /\ sendCalls <= MAX_RETRIES + 1
    /\ pc = "sending" => sendCalls = attempt + 1
    /\ error = "failed after 4 attempts"
          => /\ pc = "failed"
             /\ sendCalls = MAX_RETRIES + 1
             /\ i \notin settled
             /\ \A k \in 1..Len(transfers) : transfers[k].op < i
             /\ inFlight = {}
             /\ ~ENABLED EngineNext

\* C5 witness: an operation that is neither the first nor the last failed
\* all its attempts.
C5_Witness ==
    /\ error = "failed after 4 attempts"
    /\ i >= 1
    /\ i + 1 < totalOperations

\* C6: each backoff wait follows a failed attempt k in 0..2 and lasts between
\* 0.7 and 1.3 times 1000 * 2^k ms; a transfer that succeeded after f failed
\* calls was preceded by exactly f waits and the run goes on without error;
\* no wait follows the 4th attempt.
C6_BackoffWaits ==
    /\ pc = "backoff"
          => /\ attempt < MAX_RETRIES
             /\ waitCount = attempt + 1
             /\ 10 * totalDelay >= 7 * BASE_DELAY_MS * 2 ^ attempt
             /\ 10 * totalDelay <= 13 * BASE_DELAY_MS * 2 ^ attempt
    /\ pc \in {"confirm", "delay"}
          => /\ waitCount = sendCalls - 1
             /\ error = ""
    /\ waitCount <= MAX_RETRIES
    /\ error = "failed after 4 attempts" => waitCount = MAX_RETRIES

\* C6 witness: a transfer failed twice and succeeded on the third call.
C6_Witness ==
    /\ pc = "confirm"
    /\ sendCalls = 3
    /\ waitCount = 2
    /\ Len(transfers) > 0
    /\ transfers[Len(transfers)].op = i

\* C7: a confirmation polls at most 10 times; a poll is repeated only after
\* a balance below transferAmount - 0.001 was read; after 10 such polls the
\* run has ended with the timeout error, the operation is not counted as
\* done, no checkpoint of it is written and no step of the run follows.
C7_ConfirmationPolling ==
    /\ polls <= CONFIRM_RETRIES
    /\ (pc = "confirm" /\ polls > 0) => transferAmount > TOLERANCE
    /\ error = ConfirmError
          => /\ pc = "failed"
             /\ polls = CONFIRM_RETRIES
             /\ i \notin settled
             /\ (recovery # <<>> => recovery[1].currentHop < i + 1)
             /\ inFlight = {}
             /\ ~ENABLED EngineNext

\* C7 witness: the confirmation of an operation before the last timed out
\* in a run that writes checkpoints.
C7_Witness ==
    /\ error = ConfirmError
    /\ i >= 1
    /\ i + 1 < totalOperations
    /\ config.enableRecovery

\* C8: a run over a non-empty chain returns the wallet the last forward
\* operation of the itinerary sends to, with or without bounce-backs; over 2
\* wallets with bounce probability 0 the itinerary is (-1 -> 0), (0 -> 1) and
\* the wallet returned is wallet 1.
C8_TerminalIsLastForward ==
    /\ (pc = "done" /\ Len(ForwardOps) > 0)
          => finalHopWallet = ForwardOps[Len(ForwardOps)].toWalletIndex
    /\ (/\ pc \notin {"create", "plan"}
        /\ Len(hopWallets) = 2
        /\ config.bounceBackProbability = 0)
          => /\ Len(operations) = 2
             /\ operations[1].fromWalletIndex = -1
             /\ operations[1].toWalletIndex = 0
             /\ operations[2].fromWalletIndex = 0
             /\ operations[2].toWalletIndex = 1
             /\ \A k \in 1..2 : ~operations[k].isBounceback
             /\ pc = "done" => finalHopWallet = 1

\* C8 witness: a run whose itinerary holds a bounce-back returned after
\* transferring every operation.
C8_Witness ==
    /\ pc = "done"
    /\ \E k \in 1..Len(operations) : operations[k].isBounceback
    /\ Len(transfers) = totalOperations

\* C9: at most one sendSOL call is in flight, it is the current operation's,
\* and while an operation is being transferred every earlier operation has
\* been skipped or has been sent and confirmed.
C9_Sequential ==
    /\ Cardinality(inFlight) <= 1
    /\ inFlight \subseteq {i}
    /\ Transferring => \A k \in 0..(i - 1) : k \in settled
    /\ \A k \in 1..Len(transfers) :
          /\ transfers[k].op <= i
          /\ k > 1 => transfers[k - 1].op < transfers[k].op

\* C9 witness: the third operation is being sent, after a retry.
C9_Witness ==
    /\ pc = "sending"
    /\ i = 2
    /\ attempt >= 1
    /\ Len(transfers) = 2

\* C10 (as claimed): every transfer asks for at most the balance last read
\* minus the fee, in the chain's lamports, and when that read was accurate
\* sendSOL does not reject the transfer for lack of funds.
C10_FeeReserved ==
    /\ Transferring
          => \/ transferAmount < fromBalance - TX_FEE
             \/ transferAmount = fromBalance - TX_FEE /\ roundOff <= 0
    /\ (pc = "sending" /\ fromBalance = ledger[operation.fromWalletIndex])
          => ~LedgerRejects(operation.fromWalletIndex, transferAmount)

\* ------------------------------------------------------ cancellation claims

\* C11: a step taken while an operation reads its balance, transfers
\* (attempts and backoff waits) or polls for confirmation never ends the run
\* with the cancellation error, whatever the abort flag; the cancellation
\* error appears only in a step out of the delay, with the flag set.
C11_CancelOnlyInDelay ==
    [][/\ pc \in {"read", "send", "sending", "backoff", "confirm"}
             => error' # CancelError
       /\ (error # CancelError /\ error' = CancelError)
             => pc = "delay" /\ aborted]_vars

\* C11 witness: the abort flag is set and the run is still polling for the
\* confirmation of a transfer that was retried.
C11_Witness ==
    /\ aborted
    /\ pc = "confirm"
    /\ polls >= 2
    /\ waitCount >= 1
    /\ error = ""

\* C12: a tick of the delay with the abort flag set ends the run with the
\* cancellation error without decrementing or reporting, and after that
\* error the engine takes no step: no balance is read, no transfer issued.
C12_CancelAtTick ==
    [][/\ (pc = "delay" /\ aborted)
             => /\ pc' = "failed"
                /\ error' = CancelError
                /\ UNCHANGED <<secondsLeft, progress, i>>
       /\ error = CancelError
             => UNCHANGED <<pc, i, fromBalance, polls, ledger, transfers,
                            sendCalls, inFlight, settled>>]_vars

\* C12 witness: a run cancelled with a second of delay left, reported to
\* the caller.
C12_Witness ==
    /\ error = CancelError
    /\ secondsLeft >= 1
    /\ i >= 1
    /\ caller = "caught"

\* ------------------------------------------------------------ secret claims

\* C13 (as claimed): when onSubmit has ended, after a returned or a failed
\* run, the secretKey of every wallet object of the chain is empty.
C13_SecretsWiped ==
    caller \in {"caught", "cleaned"}
        => \A n \in DOMAIN secretKeys : secretKeys[n] = ""

\* C14 (as claimed): with enableRecovery off no secretKey is in
\* sessionStorage or in a checkpoint posted to the server.
C14_NoSecretStored ==
    ~config.enableRecovery
        => /\ recovery = <<>>
           /\ serverCheckpoint # <<>>
                 => \A n \in DOMAIN serverCheckpoint[1].hopWallets :
                        serverCheckpoint[1].hopWallets[n].secretKey = ""

\* the invariants of a routing configuration
ValidConfig ==
    /\ config.minHops <= config.maxHops
    /\ config.minDelaySeconds <= config.maxDelaySeconds
    /\ config.bounceBackProbability \in 0..100
    /\ config.amountVariancePercent \in 0..100
    /\ config.bounceBackProbability > 0 => config.maxBounceBackDepth >= 1

\* C15 (as claimed): a run with a configuration that breaks an invariant
\* fails with a configuration error before it reads a balance or transfers.
C15_ConfigChecked ==
    ~ValidConfig
        => /\ pc \in {"create", "plan", "failed"}
           /\ pc = "failed" => error = "Invalid configuration"
           /\ transfers = <<>>
           /\ sendCalls = 0

\* ------------------------------------------------------- planning claims

\* C16: with bounceBackProbability 0 no operation is a bounce-back, the k-th
\* operation goes from wallet k-2 to wallet k-1, and the returned itinerary
\* has N operations.
C16_StraightChain ==
    config.bounceBackProbability = 0
        => /\ \A k \in 1..Len(operations) :
                 /\ ~operations[k].isBounceback
                 /\ operations[k].fromWalletIndex = k - 2
                 /\ operations[k].toWalletIndex = k - 1
           /\ Len(operations) = forwardIndex
           /\ Len(operations) <= Len(hopWallets)

\* C16 witness: the returned itinerary over 3 wallets of a configuration
\* with probability 0 whose other settings would allow bounce-backs.
C16_Witness ==
    /\ pc = "plan"
    /\ config.bounceBackProbability = 0
    /\ config.maxSequentialBounce >= 1
    /\ config.minForwardBeforeBounce = 0
    /\ Len(hopWallets) = 3
    /\ Len(operations) = 3

\* C17: without randomization every operation has delaySeconds equal to
\* minDelaySeconds and amountPercent 100, whatever the delay range, the
\* variance and the stealth preset.
C17_FixedShape ==
    ~config.enableRandomization
        => \A k \in 1..Len(operations) :
              /\ operations[k].delaySeconds = config.minDelaySeconds
              /\ operations[k].amountPercent = 10000

\* C17 witness: an itinerary of a configuration without randomization with
\* the stealth preset, a variance and a delay range.
C17_Witness ==
    /\ ~config.enableRandomization
    /\ config.stealthPreset
    /\ config.amountVariancePercent > 0
    /\ config.minDelaySeconds < config.maxDelaySeconds
    /\ Len(operations) >= 2

\* C18: the chain createHopChain returns has between minHops and maxHops
\* wallets, exactly minHops without randomization, numbered 1..length in
\* order.
C18_ChainLength ==
    pc # "create"
        => /\ Len(hopWallets) >= config.minHops
           /\ Len(hopWallets) <= config.maxHops
           /\ ~config.enableRandomization => Len(hopWallets) = config.minHops
           /\ \A n \in 1..Len(hopWallets) : hopWallets[n].hopNumber = n

\* C18 witness: a randomized chain longer than minHops, of maxHops wallets.
C18_Witness ==
    /\ pc = "plan"
    /\ config.enableRandomization
    /\ config.minHops + 2 <= config.maxHops
    /\ Len(hopWallets) = config.maxHops

\* the locals of the execution of generateHopItinerary the steps perform
PlannerLocals ==
    [operations |-> operations, forwardIndex |-> forwardIndex,
     consecutiveBounces |-> consecutiveBounces,
     hopsSinceStart |-> hopsSinceStart, historyWindow |-> historyWindow,
     currentWalletIndex |-> currentWalletIndex]

C20_StaleCheckpointVoid ==
    [][(SubmitOver /\ now' = now /\ caller' = caller)
          => IF recovery # <<>> /\ now - recovery[1].timestamp > TTL_MS
             THEN lastRead' = <<>> /\ recovery' = <<>>
             ELSE lastRead' = recovery /\ recovery' = recovery]_vars

\* C20 witness: after a failed run that had written a checkpoint, the store
\* is empty more than an hour later.
C20_Witness ==
    /\ caller = "caught"
    /\ config.enableRecovery
    /\ \E k \in 1..Len(transfers) : transfers[k].op \in settled
    /\ recovery = <<>>
    /\ lastRead = <<>>
    /\ now > TTL_MS

\* ------------------------------------------------------ concurrency claims

\* C21: with recovery enabled, a checkpoint written by one run is never
\* overwritten or erased by a step of the other run, whether that step
\* saves a checkpoint or cleans up: while sessionStorage holds the
\* checkpoint of one run, a step of the other run leaves it as it is.
C21_CheckpointKept ==
    [][(/\ recovery # <<>>
        /\ \/ /\ recovery[1].hopWallets # OtherHopWallets
              /\ otherRun' # otherRun
           \/ /\ recovery[1].hopWallets = OtherHopWallets
              /\ otherRun' = otherRun)
       => recovery' = recovery]_vars

\* ------------------------------------------------------------- ETA claims

\* ceil(x / 4), as the least whole number not below the quotient
CeilOfQuarters(x) == CHOOSE n \in 0..x : 4 * n >= x /\ 4 * (n - 1) < x

\* C22: calculateMixerETA returns totalSeconds = initialDelaySeconds +
\* ceil(((minHops + maxHops) / 2) * ((minDelaySeconds + maxDelaySeconds) / 2))
\* + 450, initialDelaySeconds being initialDelayMinutes * 60 if the initial
\* delay is enabled and 0 otherwise; for 2 to 4 hops, delays of 5 to 30
\* seconds and no initial delay the hop-chain bucket is 53, the total 503
\* and the formatted time "8m 23s".
C22_EstimateFormula ==
    eta # <<>> =>
        LET e == eta[1]
            initialDelaySeconds ==
                IF e.enableInitialDelay THEN e.initialDelayMinutes * 60
                ELSE 0
            bucket == CeilOfQuarters(
                          (config.minHops + config.maxHops)
                              * (config.minDelaySeconds
                                     + config.maxDelaySeconds))
        IN  /\ e.estimate.totalSeconds = initialDelaySeconds + bucket + 450
            /\ e.estimate.breakdown.initialDelay = initialDelaySeconds
            /\ e.estimate.breakdown.hopChainDelays = bucket
            /\ ( /\ config.minHops = 2 /\ config.maxHops = 4
                 /\ config.minDelaySeconds = 5 /\ config.maxDelaySeconds = 30
                 /\ ~e.enableInitialDelay )
               => /\ e.estimate.breakdown.hopChainDelays = 53
                  /\ e.estimate.totalSeconds = 503
                  /\ e.estimate.formattedTime = "8m 23s"

\* the estimate of the scenario has been computed
C22_Witness ==
    /\ eta # <<>>
    /\ config.minHops = 2 /\ config.maxHops = 4
    /\ config.minDelaySeconds = 5 /\ config.maxDelaySeconds = 30
    /\ ~eta[1].enableInitialDelay
    /\ eta[1].estimate.formattedTime = "8m 23s"

\* the order of the stages, exchanging and sending being one stage
StageRank(stage) ==
    CASE stage = "delaying" -> 1
      [] stage = "hopping" -> 2
      [] OTHER -> 3

\* C23: the remaining ETA never goes negative and never jumps backward:
\* for one original estimate, when 0 <= e1 <= e2 and stage s1 is the same
\* as or earlier than s2, 0 <= remaining(e2, s2) <= remaining(e1, s1).
C23_RemainingMonotone ==
    (eta # <<>> /\ eta[1].latest # <<>>) =>
        LET second == eta[1].latest[1]
        IN  /\ second.remaining.totalSeconds >= 0
            /\ eta[1].previous # <<>> =>
                  LET first == eta[1].previous[1]
                  IN  ( /\ first.elapsedSeconds <= second.elapsedSeconds
                        /\ StageRank(first.currentStage)
                               <= StageRank(second.currentStage) )
                      => second.remaining.totalSeconds
                             <= first.remaining.totalSeconds

\* the estimate has an initial delay, the first update was made while
\* delaying before the delay was over, the second while hopping after the
\* hop bucket was used up
C23_Witness ==
    /\ eta # <<>>
    /\ eta[1].previous # <<>>
    /\ eta[1].latest # <<>>
    /\ eta[1].estimate.breakdown.initialDelay > 0
    /\ eta[1].previous[1].currentStage = "delaying"
    /\ eta[1].previous[1].elapsedSeconds
           < eta[1].estimate.breakdown.initialDelay
    /\ eta[1].latest[1].currentStage = "hopping"
    /\ eta[1].latest[1].elapsedSeconds > eta[1].estimate.totalSeconds
    /\ eta[1].latest[1].remaining.totalSeconds
           < eta[1].previous[1].remaining.totalSeconds

\* ------------------------------------------------------ accounting claims

\* C24: in every run the accounting precompute (the sends scheduled per
\* account and the fee reserve per account) is performed after the
\* itinerary is planned and before the first transfer is issued: once a
\* sendSOL call was made, the run has its AccountingState.
C24_PrecomputeBeforeTransfer ==
    (sendCalls > 0 \/ transfers # <<>>) => accounting # <<>>

\* the operations of an itinerary sent by account x
SendsOf(itinerary, x) ==
    {k \in 1..Len(itinerary) : itinerary[k].fromWalletIndex = x}

RECURSIVE SumOf(_)
SumOf(f) ==
    IF DOMAIN f = {} THEN 0
    ELSE LET x == CHOOSE y \in DOMAIN f : TRUE
         IN  f[x] + SumOf([y \in DOMAIN f \ {x} |-> f[y]])

\* C25: for every itinerary the fee reserve of account x is the
\* per-transfer fee times the number of operations sent by x, plus the
\* source safety buffer if and only if x = -1; a reserve entry exists
\* exactly for the indices that appear as a sender, and the send counts
\* sum to the itinerary length.
C25_FeeReserve ==
    accounting # <<>> =>
        LET a == accounting[1]
            senders == {operations[k].fromWalletIndex :
                            k \in 1..Len(operations)}
        IN  /\ DOMAIN a.feeEscrow = senders
            /\ DOMAIN a.scheduledSends = senders
            /\ \A x \in senders :
                  /\ a.scheduledSends[x] = Cardinality(SendsOf(operations, x))
                  /\ a.feeEscrow[x] =
                         TX_FEE * Cardinality(SendsOf(operations, x))
                             + (IF x = -1 THEN SOURCE_SAFETY ELSE 0)
            /\ SumOf(a.scheduledSends) = Len(operations)

\* the precompute ran on an itinerary with a bounce-back, in which a hop
\* wallet sends twice
C25_Witness ==
    /\ accounting # <<>>
    /\ -1 \in DOMAIN accounting[1].feeEscrow
    /\ \E x \in DOMAIN accounting[1].scheduledSends :
          x >= 0 /\ accounting[1].scheduledSends[x] >= 2
    /\ \E k \in 1..Len(operations) : operations[k].isBounceback

\* ----------------------------------------------------------- delay claims

\* C26: with randomization enabled, when the stealth delay mode is active
\* (config.delayMode = 'stealth') every planned delay lies in
\* [max(minDelaySeconds, 300), max(maxDelaySeconds, 3600)], and when it is
\* not active every planned delay lies in [minDelaySeconds, maxDelaySeconds].
C26_StealthDelays ==
    config.enableRandomization =>
        \A k \in 1..Len(operations) :
            LET delay == operations[k].delaySeconds
            IN  IF config.delayMode = "stealth"
                THEN /\ delay >= Max(config.minDelaySeconds, 300)
                     /\ delay <= Max(config.maxDelaySeconds, 3600)
                ELSE /\ delay >= config.minDelaySeconds
                     /\ delay <= config.maxDelaySeconds

\* C27: a countdown delay of n >= 0 seconds that is not cancelled reports
\* a value on every tick, the values strictly decreasing and never
\* negative, the last one 0, and resolves when the counter reaches zero:
\* the value last passed to onProgress is never below 0, and it is 0 once
\* the delay has resolved.
C27_Countdown ==
    /\ secondsLeft >= 0
    /\ (pc # "delay" /\ error # CancelError) => secondsLeft = 0

\* --------------------------------------------------------- planner claims

\* C28: when the planner draws a bounce-back whose target is the current
\* account, it advances forward instead, with all three effects of a
\* forward step: the current index appended to the history window,
\* forwardIndex incremented, consecutiveBounces reset to 0.  Every
\* iteration that plans a forward hop, the abandoned bounce included,
\* therefore has the three effects.
C28_SelfHopAdvances ==
    [][(/\ Len(operations') = Len(operations) + 1
        /\ ~operations'[Len(operations')].isBounceback)
       => /\ historyWindow' = PushHistory
          /\ forwardIndex' = forwardIndex + 1
          /\ consecutiveBounces' = 0]_vars

\* the bounce-backs that end at operation k, counted backward
RECURSIVE BounceRun(_)
BounceRun(k) ==
    IF k = 0 \/ ~operations[k].isBounceback THEN 0 ELSE 1 + BounceRun(k - 1)

\* C29: in every itinerary no run of consecutive bounce-backs is longer
\* than config.maxSequentialBounce; after maxSequentialBounce consecutive
\* bounce-backs the next operation is a forward hop.
C29_BounceRunBounded ==
    \A k \in 1..Len(operations) :
        /\ BounceRun(k) <= config.maxSequentialBounce
        /\ (k > 1 /\ BounceRun(k - 1) = config.maxSequentialBounce)
              => ~operations[k].isBounceback

\* maxSequentialBounce bounce-backs in a row, two or more, then a forward hop
C29_Witness ==
    /\ config.maxSequentialBounce >= 2
    /\ \E k \in 2..Len(operations) :
          /\ BounceRun(k - 1) = config.maxSequentialBounce
          /\ ~operations[k].isBounceback

\* C30: an operation at position p (0-based) is a bounce-back only if
\* p >= config.minForwardBeforeBounce and at least two forward hops precede
\* it; the first two operations are the forward hops -1 -> 0 and 0 -> 1.
C30_BounceOnlyAfterForward ==
    /\ \A k \in 1..Len(operations) :
          operations[k].isBounceback =>
              /\ k - 1 >= config.minForwardBeforeBounce
              /\ Cardinality({j \in 1..(k - 1) :
                                 ~operations[j].isBounceback}) >= 2
    /\ Len(operations) >= 1 =>
          /\ ~operations[1].isBounceback
          /\ operations[1].fromWalletIndex = -1
          /\ operations[1].toWalletIndex = 0
    /\ Len(operations) >= 2 =>
          /\ ~operations[2].isBounceback
          /\ operations[2].fromWalletIndex = 0
          /\ operations[2].toWalletIndex = 1

\* a bounce-back at the first position minForwardBeforeBounce allows,
\* later than the history window alone would allow it
C30_Witness ==
    /\ config.minForwardBeforeBounce > 2
    /\ \E k \in 1..Len(operations) :
          /\ operations[k].isBounceback
          /\ k - 1 = config.minForwardBeforeBounce

\* C31: throughout planning the history window never holds more than
\* maxBounceBackDepth entries, the oldest evicted first, and every
\* bounce-back target is an entry of that window: an intermediate index t
\* with 0 <= t < forwardIndex that a forward hop already visited, never the
\* source index -1.
C31_HistoryWindow ==
    [][Len(operations') = Len(operations) + 1 =>
        LET new == operations'[Len(operations')]
            pushed == Append(historyWindow, currentWalletIndex)
            kept == Len(historyWindow')
        IN  /\ kept <= config.maxBounceBackDepth
            /\ historyWindow' # historyWindow =>
                  /\ kept = Min(config.maxBounceBackDepth, Len(pushed))
                  /\ historyWindow' =
                         SubSeq(pushed, Len(pushed) - kept + 1, Len(pushed))
            /\ new.isBounceback =>
                  /\ \E k \in 1..Len(historyWindow) :
                        historyWindow[k] = new.toWalletIndex
                  /\ new.toWalletIndex >= 0
                  /\ new.toWalletIndex < forwardIndex
                  /\ \E j \in 1..Len(operations) :
                        /\ ~operations[j].isBounceback
                        /\ operations[j].toWalletIndex = new.toWalletIndex
       ]_vars

\* a bounce-back planned after the window was full and wallet 0 evicted
C31_Witness ==
    /\ Len(operations) > 0
    /\ operations[Len(operations)].isBounceback
    /\ Len(historyWindow) = config.maxBounceBackDepth
    /\ \A k \in 1..Len(historyWindow) : historyWindow[k] # 0

\* ---------------------------------------------------------- engine claims

\* C32: an operation whose computed transfer amount is below the minimum
\* viable threshold is skipped: no transfer and no confirmation poll is
\* issued for it, the run does not fail because of it, and processing
\* continues with the next operation of the itinerary.  (The first forward
\* hop that cannot inject finalAmount fails the run for that reason, before
\* the threshold is looked at.)
C32_TooSmallSkipped ==
    [][(/\ pc = "read"
        /\ aborted' = aborted
        /\ transferAmount' < MIN_TRANSFER
        /\ ~(/\ ~operation.isBounceback /\ isFirstForward
             /\ transferAmount' < finalAmount))
       => /\ i' = i + 1
          /\ pc' = IF i + 1 < totalOperations THEN "read" ELSE "done"
          /\ error' = error
          /\ transfers' = transfers
          /\ inFlight' = inFlight
          /\ sendCalls' = 0
          /\ polls' = polls
          /\ ledger' = ledger]_vars

\* an operation was skipped and a later operation was carried out
C32_Witness ==
    \E k \in settled :
        /\ \A n \in 1..Len(transfers) : transfers[n].op # k
        /\ \E n \in 1..Len(transfers) : transfers[n].op > k

\* C33: with recovery enabled the engine writes exactly one checkpoint
\* after each operation whose transfer was confirmed and none otherwise;
\* the checkpoints' currentHop values are strictly increasing, completed
\* is true only in the checkpoint of the last operation, and a run that
\* returns successfully leaves a last checkpoint with completed = true
\* (a run with operations, that is: an empty itinerary confirms nothing).
C33_Checkpoints ==
    [][config.enableRecovery =>
        LET confirmed == pc = "confirm" /\ pc' \in {"delay", "read", "done"}
        IN  /\ confirmed =>
                  /\ recovery' # <<>>
                  /\ recovery'[1].currentHop = i + 1
                  /\ recovery # <<>> =>
                        recovery'[1].currentHop > recovery[1].currentHop
                  /\ recovery'[1].completed <=> i = totalOperations - 1
            /\ (~confirmed /\ caller' = caller) => recovery' = recovery
            /\ (pc # "done" /\ pc' = "done" /\ totalOperations > 0) =>
                  /\ recovery' # <<>>
                  /\ recovery'[1].completed
       ]_vars

\* ---------------------------------------------------------- caller claims

\* C34: for every run started by onSubmit for which a session record
\* exists exactly one terminal bookkeeping call is made: completeSession
\* once if the run succeeded, failSession exactly once if it ended with an
\* error or with cancellation; a session is never marked failed after it
\* was marked completed, and failSession is never called twice.
C34_OneTerminalCall ==
    /\ Cardinality({k \in 1..Len(sessionCalls) :
                       sessionCalls[k] = "fail"}) <= 1
    /\ \A k \in 1..Len(sessionCalls) :
          sessionCalls[k] = "complete" => k = Len(sessionCalls)
    /\ caller = "caught" => sessionCalls = <<"fail">>
    /\ caller \in {"finished", "cleaned"} => sessionCalls = <<"complete">>

\* ------------------------------------------------- planner claims, part 2

\* generateHopItinerary has left its while loop
PlannerDone == pc = "plan" /\ forwardIndex >= Len(hopWallets)

\* C35: generateHopItinerary terminates for every account list of size N
\* and every configuration with a finite non-negative maxSequentialBounce,
\* under every sequence of random draws, and the itinerary length is at
\* least N and at most N * (1 + maxSequentialBounce).
C35_PlannerTerminates ==
    /\ [](pc = "plan" =>
             Len(operations)
                 <= Len(hopWallets) * (1 + config.maxSequentialBounce))
    /\ <>(PlannerDone /\ Len(operations) >= Len(hopWallets))

\* the loop is over and has planned bounce-backs besides the forward hops
C35_Witness ==
    /\ PlannerDone
    /\ Len(hopWallets) >= 3
    /\ Len(operations) > Len(hopWallets)

\* C36: every non-empty itinerary is one connected path: the first
\* operation has fromWalletIndex = -1, each later operation's
\* fromWalletIndex is the previous operation's toWalletIndex, and the last
\* operation of the finished itinerary is a forward hop whose
\* toWalletIndex is N - 1, never a bounce-back.
C36_ConnectedPath ==
    /\ Len(operations) >= 1 => operations[1].fromWalletIndex = -1
    /\ \A k \in 2..Len(operations) :
          operations[k].fromWalletIndex = operations[k - 1].toWalletIndex
    /\ (PlannerDone /\ Len(operations) >= 1) =>
          /\ ~operations[Len(operations)].isBounceback
          /\ operations[Len(operations)].toWalletIndex = Len(hopWallets) - 1

\* a finished itinerary that went back and forth
C36_Witness ==
    /\ PlannerDone
    /\ \E k \in 1..Len(operations) : operations[k].isBounceback
    /\ operations[Len(operations)].toWalletIndex = Len(hopWallets) - 1

\* ------------------------------------------------- engine claims, part 2

\* the intermediate accounts of the run
HopAccounts == DOMAIN ledger \ {-1}

\* C37: funds move as a single token along the path: intermediate
\* accounts starting empty, nobody else depositing and each transfer
\* costing its sender the per-transfer fee, after every confirmed
\* operation the destination of that operation holds all the routed funds
\* (what the source injected less the fees paid since) and every other
\* intermediate account has balance 0.
C37_SingleToken ==
    transfers # <<>> =>
        LET last == transfers[Len(transfers)]
        IN  /\ ledger[last.to] = last.amount
            /\ last.amount =
                   transfers[1].amount - ESTIMATED_FEE * (Len(transfers) - 1)
            /\ \A w \in HopAccounts \ {last.to} : ledger[w] = 0

\* the run is over; the funds went forward, back and forward again and
\* are in the last wallet
C37_Witness ==
    /\ pc = "done"
    /\ Len(transfers) = Len(operations)
    /\ \E k \in 1..Len(operations) : operations[k].isBounceback
    /\ ledger[Len(hopWallets) - 1] > 0

\* C38: a run returns successfully only if the transfer of every
\* itinerary operation, and in particular of the last forward operation
\* into the returned terminal account, was executed and confirmed, also
\* when a balance read returns 0 or amounts are below the confirmation
\* tolerance.
C38_SuccessMeansAllTransferred ==
    pc = "done" =>
        \A k \in 0..(totalOperations - 1) :
            \E n \in 1..Len(transfers) : transfers[n].op = k

\* C39: every call of executeHopChain ends in one of two ways: it raises
\* an error, or it returns an account that is a member of the chain
\* generated for this run; with zero intermediate accounts the itinerary
\* is empty, no transfer is issued, and the call does not return a missing
\* account as a success.
C39_ReturnsChainMember ==
    (pc = "done" /\ caller = "running") =>
        /\ error = ""
        /\ finalHopWallet \in 0..(Len(hopWallets) - 1)

\* the operation with the amount factor of 100 percent
Unskimmed(op) == [op EXCEPT !.amountPercent = 10000]

====
